---- MODULE Spec2Model ----
(***************************************************************************)
(* x402-open gateways: the libp2p gateway (src/src/gateway.ts,             *)
(* createGatewayAdapter) and the HTTP gateway (src/src/httpGateway.ts,     *)
(* createHttpGatewayAdapter).  One inbound request is followed from its    *)
(* arrival to its response while announcements arrive and time passes.     *)
(*                                                                         *)
(* Peer ids are the numbers 1..NumPeers.  A multiaddr is a pair            *)
(* [pid, n]: the n-th configured address ending in /p2p/<pid>.  Time is    *)
(* counted in ticks; Date.now() is never 0.  JSON null is the string       *)
(* "null"; a missing (non-string) field of a peer's body is Absent.        *)
(***************************************************************************)
EXTENDS Integers, Sequences, FiniteSets, TLC

\* ------------------------------------------------------------------ bounds
NumPeers == 2
MaxAddrs == 1
MaxAnnounce == 2
MaxFallbackAddrs == 2
MaxSubs == 3
MaxCalls == 2
MaxNodes == 2

\* options.peerTtlMs, in ticks
PeerTtlMs == 1
\* the clock runs until a peer announced at the start has expired
MaxTime == PeerTtlMs + 2
\* options.verifyQuorum ranges up to the number of peers
MaxQuorum == NumPeers

Peers == 1..NumPeers
Networks == {"base-sepolia", "solana-devnet"}
Absent == "<absent>"

Max(a, b) == IF a >= b THEN a ELSE b

Range(s) == {s[i] : i \in 1..Len(s)}

\* the sequence <<1, ..., n>>
Prefix(n) == [i \in 1..n |-> i]

\* all orderings of the elements of the sequence s
Perms(s) ==
  {t \in [1..Len(s) -> Range(s)] :
      \A i, j \in 1..Len(s) : (i # j) => (t[i] # t[j])}

\* ------------------------------------------------------------------ bodies
\* Inbound request bodies (req.body): the canonical shape, the legacy shape
\* with a raw paymentHeader, and the empty object {}.
NoPayload == [tag |-> "absent", header |-> ""]
NoRequirements == [tag |-> "absent", network |-> ""]

CanonicalBody ==
  [paymentPayload |-> [tag |-> "object", header |-> "hdr"],
   paymentHeader |-> "",
   paymentRequirements |-> [tag |-> "object", network |-> "base-sepolia"]]

LegacyBody ==
  [paymentPayload |-> NoPayload,
   paymentHeader |-> "hdr",
   paymentRequirements |-> [tag |-> "object", network |-> "base-sepolia"]]

EmptyBody ==
  [paymentPayload |-> NoPayload,
   paymentHeader |-> "",
   paymentRequirements |-> NoRequirements]

InboundBodies == {CanonicalBody, LegacyBody, EmptyBody}

\* JavaScript truthiness of a string field and of an object field
TruthyString(field) == field # ""
Truthy(field) == field.tag # "absent"

\* forwardBody of both handlers of both gateways
ForwardBody(inbound) ==
  IF Truthy(inbound.paymentPayload) /\ Truthy(inbound.paymentRequirements)
  THEN inbound
  ELSE IF TruthyString(inbound.paymentHeader) /\ Truthy(inbound.paymentRequirements)
       THEN [paymentPayload |-> [tag |-> "object", header |-> inbound.paymentHeader],
             paymentHeader |-> "",
             paymentRequirements |-> inbound.paymentRequirements]
       ELSE inbound

\* req.body?.paymentRequirements?.network ?? undefined ("" when there is none)
RequestedNetwork(inbound) == inbound.paymentRequirements.network

\* The sticky window of the specification (300 000 ms against a peer TTL of
\* 120 000 ms), in ticks.
StickyTtlMs == 2 * PeerTtlMs + 1

\* The correlation key of the specification: the claim's payer/authorization
\* identity if present, else the raw header value, else none ("").
CorrelationKey(inbound) ==
  IF Truthy(inbound.paymentPayload) THEN inbound.paymentPayload.header
  ELSE inbound.paymentHeader

\* ------------------------------------------------------- peers' responses
\* What a peer can answer to a verify: {status, body}.
VerifyResponses ==
  {[status |-> 200, body |-> [json |-> "true", error |-> Absent, txHash |-> Absent]],
   [status |-> 200, body |-> [json |-> "false", error |-> Absent, txHash |-> Absent]],
   [status |-> 400, body |-> [json |-> "object", error |-> "bad", txHash |-> Absent]],
   [status |-> 500, body |-> [json |-> "object", error |-> Absent, txHash |-> Absent]]}

\* Status-200 verify bodies that are not a boolean: an object such as
\* {isValid: true}, a string, no body at all
OddVerifyResponses ==
  {[status |-> 200, body |-> [json |-> "object", error |-> Absent, txHash |-> Absent]],
   [status |-> 200, body |-> [json |-> "string", error |-> Absent, txHash |-> Absent]],
   [status |-> 200, body |-> [json |-> "empty", error |-> Absent, txHash |-> Absent]]}

AnyVerifyResponses == VerifyResponses \cup OddVerifyResponses

\* What a peer can answer to a settle.
SettleResponses ==
  {[status |-> 200, body |-> [json |-> "object", error |-> Absent, txHash |-> "0xABC"]],
   [status |-> 400, body |-> [json |-> "object", error |-> "bad", txHash |-> Absent]],
   [status |-> 500, body |-> [json |-> "object", error |-> Absent, txHash |-> Absent]]}

\* type Attempt, and the state of an attempt that has not settled
Pending == [kind |-> "pending"]
AttemptTrue == [kind |-> "true"]
AttemptFalse == [kind |-> "false"]
AttemptFail == [kind |-> "fail"]
AttemptError(response) ==
  [kind |-> "error", status |-> response.status, body |-> response.body]

\* what a settle attempt that got a response ended with
Answered(response) ==
  [kind |-> "response", status |-> response.status, body |-> response.body]

\* (mutation) any truthy status-200 body counts as true
Classify_Truthy(response) ==
  IF response.status = 200
  THEN IF response.body.json \in {"true", "object", "string"}
       THEN AttemptTrue ELSE AttemptFalse
  ELSE AttemptError(response)

\* the classification of a peer's verify response
Classify(response) ==
  IF response.status = 200
  THEN IF response.body.json = "true" THEN AttemptTrue ELSE AttemptFalse
  ELSE AttemptError(response)

\* ---------------------------------------------------------------- state
VARIABLES
  binding,          \* "libp2p" (createGatewayAdapter) or "http" (createHttpGatewayAdapter)
  options,          \* the options the gateway was built with
  hasP2P,           \* facilitator.p2p is defined
  hasOnAnnouncement,\* facilitator.p2p has an onAnnouncement method
  now,              \* Date.now()
  announced,        \* number of pubsub messages the listener was handed so far
  lastMsg,          \* the last pubsub message the listener was handed
  dropped,          \* number of those messages the listener dropped
  silent,           \* the peers that never answer a request sent to them
  announcementHandlers, \* P2PManager: the handler functions, in push order
  subscriptions,    \* per onAnnouncement call: its handler and the calls of its token
  lastDispatch,     \* the last run of the listener's loop over the handlers
  node,             \* P2PManager.node (0 when undefined, else the node's number)
  running,          \* the libp2p nodes created and not stopped
  created,          \* number of libp2p nodes created so far
  starting,         \* start() calls past their guard, awaiting createLibp2p
  stopping,         \* stop() calls awaiting node.stop()
  timers,           \* setInterval announce timers that are running
  heard,            \* per peer id, the last valid announcement the node received
  peerIdToRecord,   \* the Map peerId -> PeerRecord, in insertion order
  pc,               \* "idle", "verify", "settle" or "done": the request being handled
  route,            \* "/rpc/verify" or "/rpc/settle": the route of that request
  body,             \* req.body
  peers,            \* the active peers the handler found on arrival
  candidatePeers,   \* verify: the candidates; settle: the try order
  attempts,         \* per position of candidatePeers: [st, stage, out]
  arrival,          \* positions of candidatePeers in the order their attempts settled
  sent,             \* the requests sent to peers for this request, in order
  lastResponse,     \* what the awaited peer call that ended last returned
  res               \* the response sent to the caller (NoRes while there is none)

vars ==
  <<binding, options, hasP2P, hasOnAnnouncement, now, announced, lastMsg,
    dropped, silent, announcementHandlers, subscriptions, lastDispatch, node,
    running, created, starting, stopping, timers, heard, peerIdToRecord, pc,
    route, body, peers, candidatePeers, attempts, arrival, sent,
    lastResponse, res>>

config == <<binding, options, hasP2P, hasOnAnnouncement>>
listener == <<lastMsg, dropped>>
handlers == <<announcementHandlers, subscriptions, lastDispatch>>
lifecycle == <<node, running, created, starting, stopping, timers>>
manager == <<handlers, lifecycle>>
request ==
  <<pc, route, body, peers, candidatePeers, attempts, arrival, sent,
    lastResponse, res>>

NoRes == [status |-> 0, body |-> [none |-> "none"]]

\* no response: no peer call has ended yet, or the last one threw
NoResponse == [status |-> 0, body |-> [none |-> "none"]]

\* createGatewayAdapter returned: facilitator.p2p?.onAnnouncement(...) throws a
\* TypeError when p2p is defined and has no onAnnouncement, and then no route
\* is mounted; createHttpGatewayAdapter makes no such call
Mounted == (binding = "libp2p" /\ hasP2P) => hasOnAnnouncement

\* (mutation) the configured quorum is used as it is
verifyQuorum_Unclamped == options.verifyQuorum

\* const verifyQuorum = Math.max(1, options.verifyQuorum ?? 1)
verifyQuorum == Max(1, options.verifyQuorum)

\* (mutation) the known multiaddrs of a peer, last configured first
peerIdToMultiaddrs_Reversed(peerId) ==
  [n \in 1..options.peerMultiaddrs[peerId] |->
     [pid |-> peerId, n |-> options.peerMultiaddrs[peerId] + 1 - n]]

\* peerIdToMultiaddrs.get(peerId) ?? []
peerIdToMultiaddrs(peerId) ==
  [n \in 1..options.peerMultiaddrs[peerId] |-> [pid |-> peerId, n |-> n]]


\* ------------------------------------------------------------- registry
\* no valid announcement of the peer was received yet
NotHeard == [kinds |-> {}, at |-> 0]

\* the kinds a peer can announce (never empty: p2p.ts drops empty ones)
AnnouncedKinds == {{"base-sepolia"}, {"solana-devnet"}}

\* for (const peerId of options.staticPeers ?? []) peerIdToRecord.set(...)
SeedStatic(staticPeers) ==
  [i \in 1..Len(staticPeers) |->
      [peerId |-> staticPeers[i], kinds |-> {}, lastSeenMs |-> 0]]

\* Map.set: an existing key keeps its place, a new key goes last
MapSet(map, rec) ==
  IF \E i \in 1..Len(map) : map[i].peerId = rec.peerId
  THEN [i \in 1..Len(map) |-> IF map[i].peerId = rec.peerId THEN rec ELSE map[i]]
  ELSE Append(map, rec)

\* (mutation) the announced kinds are merged into the kinds already known
OnAnnouncement_Merge(map, peerId, kinds, t) ==
  MapSet(map, [peerId |-> peerId,
               kinds |-> kinds \cup UNION {rec.kinds : rec \in {r \in Range(map) : r.peerId = peerId}},
               lastSeenMs |-> t])

\* (mutation) the upsert also deletes the records that have expired
OnAnnouncement_Prune(map, peerId, kinds, t) ==
  MapSet(SelectSeq(map, LAMBDA rec :
                     (t - rec.lastSeenMs <= PeerTtlMs) \/ (rec.lastSeenMs = 0)),
         [peerId |-> peerId, kinds |-> kinds, lastSeenMs |-> t])

\* the handler given to facilitator.p2p.onAnnouncement
OnAnnouncement(map, peerId, kinds, t) ==
  MapSet(map, [peerId |-> peerId, kinds |-> kinds, lastSeenMs |-> t])

MapGet(map, peerId) ==
  CHOOSE rec \in Range(map) : rec.peerId = peerId

\* (mutation) a record exactly peerTtlMs old is no longer fresh
IsActive_Strict(rec, t) == (t - rec.lastSeenMs < PeerTtlMs) \/ (rec.lastSeenMs = 0)

IsActive(rec, t) == (t - rec.lastSeenMs <= PeerTtlMs) \/ (rec.lastSeenMs = 0)

getActivePeers(map, t) ==
  LET fresh == SelectSeq(map, LAMBDA rec : IsActive(rec, t))
  IN  [i \in 1..Len(fresh) |-> fresh[i].peerId]

\* peers.filter(...) by the requested network
FilterByNetwork(map, active, network) ==
  SelectSeq(active, LAMBDA peerId : \E k \in MapGet(map, peerId).kinds : k = network)

\* (mutation) the filtered list is used even when it is empty
Candidates_NoFallback(map, active, network) ==
  IF network # "" THEN FilterByNetwork(map, active, network) ELSE active

\* candidatePeers of the libp2p verify handler
Candidates(map, active, network) ==
  IF network # ""
  THEN LET filtered == FilterByNetwork(map, active, network)
       IN  IF Len(filtered) = 0 THEN active ELSE filtered
  ELSE active

\* (mutation) the emptiness check is lost
NoPeers_Never(active) == FALSE

\* peers.length === 0
NoPeers(active) == Len(active) = 0

\* the answer of both routes of the libp2p gateway when there is no p2p or no
\* active peer
NoPeersAvailable == [status |-> 503, body |-> [error |-> "No peers available"]]

\* the answers of the HTTP gateway when httpPeers is empty
HttpVerifyNoPeers == [status |-> 503, body |-> [error |-> "No peers configured"]]

\* (mutation) the no-peer settle answer carries the exhaustion text
HttpSettleNoPeers_Unavailable ==
  [status |-> 503,
   body |-> [success |-> FALSE, error |-> "Settle unavailable",
             txHash |-> "null", networkId |-> "null"]]

HttpSettleNoPeers ==
  [status |-> 503,
   body |-> [success |-> FALSE, error |-> "No peers configured",
             txHash |-> "null", networkId |-> "null"]]

\* --------------------------------------------------------------- verify
\* (mutation) the results in the order in which the attempts settled
AllSettled_ArrivalOrder(atts, order) == [k \in 1..Len(order) |-> atts[order[k]].out]

\* Promise.allSettled(attempts): the results, in the order of the candidates
AllSettled(atts, order) == [i \in 1..Len(atts) |-> atts[i].out]

TrueCount(results) == Cardinality({i \in 1..Len(results) : results[i].kind = "true"})
\* (mutation) a false counts only when every attempt is false
SawFalse_Every(results) == \A i \in 1..Len(results) : results[i].kind = "false"
SawFalse(results) == \E i \in 1..Len(results) : results[i].kind = "false"
\* (mutation) application errors are not noticed
HasError_Never(results) == FALSE
HasError(results) == \E i \in 1..Len(results) : results[i].kind = "error"
FirstError(results) ==
  results[CHOOSE i \in 1..Len(results) :
            /\ results[i].kind = "error"
            /\ \A j \in 1..(i - 1) : results[j].kind # "error"]

\* (mutation) trueCount > verifyQuorum
QuorumReached_Strict(trueCount, quorum) == trueCount > quorum

\* trueCount >= verifyQuorum
QuorumReached(trueCount, quorum) == trueCount >= quorum

\* (mutation) an observed false is answered before the quorum is looked at
GwReduce_FalseFirst(results, quorum) ==
  IF SawFalse(results)
  THEN [status |-> 200, body |-> [isValid |-> FALSE, invalidReason |-> "null"]]
  ELSE IF QuorumReached(TrueCount(results), quorum)
  THEN [status |-> 200, body |-> [isValid |-> TRUE, invalidReason |-> "null"]]
  ELSE IF HasError(results)
  THEN LET firstError == FirstError(results)
           reason == IF firstError.body.error # Absent
                     THEN firstError.body.error ELSE "Verification error"
       IN  [status |-> 400, body |-> [isValid |-> FALSE, invalidReason |-> reason]]
  ELSE [status |-> 503, body |-> [error |-> "Verification unavailable"]]

\* (mutation) the first error is answered with the status the peer gave
GwReduce_ForwardStatus(results, quorum) ==
  IF QuorumReached(TrueCount(results), quorum)
  THEN [status |-> 200, body |-> [isValid |-> TRUE, invalidReason |-> "null"]]
  ELSE IF SawFalse(results)
  THEN [status |-> 200, body |-> [isValid |-> FALSE, invalidReason |-> "null"]]
  ELSE IF HasError(results)
  THEN LET firstError == FirstError(results)
           reason == IF firstError.body.error # Absent
                     THEN firstError.body.error ELSE "Verification error"
       IN  [status |-> firstError.status,
            body |-> [isValid |-> FALSE, invalidReason |-> reason]]
  ELSE [status |-> 503, body |-> [error |-> "Verification unavailable"]]

\* the reduction of the libp2p gateway's verify handler
GwReduce(results, quorum) ==
  IF QuorumReached(TrueCount(results), quorum)
  THEN [status |-> 200, body |-> [isValid |-> TRUE, invalidReason |-> "null"]]
  ELSE IF SawFalse(results)
  THEN [status |-> 200, body |-> [isValid |-> FALSE, invalidReason |-> "null"]]
  ELSE IF HasError(results)
  THEN LET firstError == FirstError(results)
           reason == IF firstError.body.error # Absent
                     THEN firstError.body.error ELSE "Verification error"
       IN  [status |-> 400, body |-> [isValid |-> FALSE, invalidReason |-> reason]]
  ELSE [status |-> 503, body |-> [error |-> "Verification unavailable"]]

\* the reduction of the HTTP gateway's verify handler (fan-out mode)
HttpReduce(results, quorum) ==
  IF QuorumReached(TrueCount(results), quorum)
  THEN [status |-> 200, body |-> [json |-> "true"]]
  ELSE IF SawFalse(results)
  THEN [status |-> 200, body |-> [json |-> "false"]]
  ELSE IF HasError(results)
  THEN [status |-> 400, body |-> FirstError(results).body]
  ELSE [status |-> 503, body |-> [error |-> "Verification unavailable"]]

\* one request sent to a peer
ById(peerId, path, payload) ==
  [via |-> "peerId", to |-> peerId, n |-> 0, path |-> path, body |-> payload]
ByMultiaddr(m, path, payload) ==
  [via |-> "multiaddr", to |-> m.pid, n |-> m.n, path |-> path, body |-> payload]
ByUrl(base, path, payload) ==
  [via |-> "url", to |-> base, n |-> 0, path |-> path, body |-> payload]

\* the peer reacts to a request sent to it (it answers, or the connection
\* fails); a silent peer accepts the request and never writes anything back
Responds(peerId) == peerId \notin silent

InFlight(i) == [st |-> "inflight", stage |-> i, out |-> Pending]
Waiting == [st |-> "waiting", stage |-> 0, out |-> Pending]
Settled(att, out) == [st |-> "settled", stage |-> 0, out |-> out]

\* (mutation) the handler stops waiting once the quorum of true is reached
AllAttemptsSettled_Quorum ==
  \/ \A i \in 1..Len(attempts) : attempts[i].st = "settled"
  \/ Cardinality({i \in 1..Len(attempts) : attempts[i].out.kind = "true"}) >= verifyQuorum

AllAttemptsSettled == \A i \in 1..Len(attempts) : attempts[i].st = "settled"

\* (mutation) the handler sends the response and goes on handling the request
Respond_KeepOpen(response) == /\ res' = response
                              /\ pc' = pc

Respond(response) == /\ res' = response
                     /\ pc' = "done"

\* router.post("/rpc/verify") of the libp2p gateway, up to its first await
GwVerifyStart(inbound) ==
  /\ binding = "libp2p" /\ Mounted
  /\ pc \in {"idle", "done"}
  /\ route' = "/rpc/verify"
  /\ body' = inbound
  /\ arrival' = <<>>
  /\ LET active == getActivePeers(peerIdToRecord, now)
     IN  /\ peers' = active
         /\ IF ~hasP2P \/ NoPeers(active)
            THEN /\ Respond(NoPeersAvailable)
                 /\ candidatePeers' = <<>>
                 /\ attempts' = <<>>
                 /\ sent' = <<>>
            ELSE LET cands == Candidates(peerIdToRecord, active, RequestedNetwork(inbound))
                 IN  /\ candidatePeers' = cands
                     /\ attempts' = [i \in 1..Len(cands) |-> InFlight(0)]
                     /\ sent' = [i \in 1..Len(cands) |->
                                   ById(cands[i], "/verify", ForwardBody(inbound))]
                     /\ pc' = "verify"
                     /\ res' = NoRes
  /\ UNCHANGED <<config, manager, silent, now, announced, listener, heard, peerIdToRecord>>
  /\ lastResponse' = NoResponse

\* requestVerify or requestVerifyByMultiaddr of candidate i returns a response
GwVerifyRespond(i, response) ==
  /\ binding = "libp2p" /\ pc = "verify"
  /\ i \in 1..Len(attempts) /\ attempts[i].st = "inflight"
  /\ Responds(candidatePeers[i])
  /\ attempts' = [attempts EXCEPT ![i] = Settled(@, Classify(response))]
  /\ arrival' = Append(arrival, i)
  /\ UNCHANGED <<config, manager, silent, now, announced, listener, heard, peerIdToRecord, pc, route, body,
                 peers, candidatePeers, sent, res>>
  /\ lastResponse' = response

\* it throws (sendRequest never times out by itself): the next known
\* multiaddr is tried, if any
GwVerifyThrow(i) ==
  /\ binding = "libp2p" /\ pc = "verify"
  /\ i \in 1..Len(attempts) /\ attempts[i].st = "inflight"
  /\ Responds(candidatePeers[i])
  /\ LET maddrs == peerIdToMultiaddrs(candidatePeers[i])
         next == attempts[i].stage + 1
     IN  IF next <= Len(maddrs)
         THEN /\ attempts' = [attempts EXCEPT ![i] = InFlight(next)]
              /\ sent' = Append(sent, ByMultiaddr(maddrs[next], "/verify", body))
              /\ arrival' = arrival
         ELSE /\ attempts' = [attempts EXCEPT ![i] = Settled(@, AttemptFail)]
              /\ arrival' = Append(arrival, i)
              /\ sent' = sent
  /\ UNCHANGED <<config, manager, silent, now, announced, listener, heard, peerIdToRecord, pc, route, body,
                 peers, candidatePeers, res>>
  /\ lastResponse' = NoResponse

\* (mutation) the reduction counts only the candidates that are still active
GwVerifyReduce_ActiveOnly ==
  /\ binding = "libp2p" /\ pc = "verify"
  /\ AllAttemptsSettled
  /\ LET all == AllSettled(attempts, arrival)
         active == Range(getActivePeers(peerIdToRecord, now))
         results == [i \in 1..Len(all) |->
                       IF candidatePeers[i] \in active THEN all[i] ELSE AttemptFail]
         response == GwReduce(results, verifyQuorum)
     IN  Respond(response)
  /\ UNCHANGED <<config, manager, silent, now, announced, listener, heard, peerIdToRecord, route, body,
                 peers, candidatePeers, attempts, arrival, sent, lastResponse>>

\* (mutation) the reduction also evicts the peers whose attempt failed
GwVerifyReduce_Evict ==
  /\ binding = "libp2p" /\ pc = "verify"
  /\ AllAttemptsSettled
  /\ LET results == AllSettled(attempts, arrival)
         response == GwReduce(results, verifyQuorum)
     IN  Respond(response)
  /\ peerIdToRecord' =
       SelectSeq(peerIdToRecord,
                 LAMBDA rec : \A k \in 1..Len(candidatePeers) :
                    (candidatePeers[k] = rec.peerId) => (attempts[k].out.kind # "fail"))
  /\ UNCHANGED <<config, manager, silent, now, announced, listener, heard, route, body,
                 peers, candidatePeers, attempts, arrival, sent>>
  /\ lastResponse' = lastResponse

\* after await Promise.allSettled(attempts): the reduction and the response
GwVerifyReduce ==
  /\ binding = "libp2p" /\ pc = "verify"
  /\ AllAttemptsSettled
  /\ LET results == AllSettled(attempts, arrival)
         response == GwReduce(results, verifyQuorum)
     IN  Respond(response)
  /\ UNCHANGED <<config, manager, silent, now, announced, listener, heard, peerIdToRecord, route, body,
                 peers, candidatePeers, attempts, arrival, sent>>
  /\ lastResponse' = lastResponse

\* --------------------------------------------------------------- settle
\* (mutation) the peer's body is answered as it came
SettleSuccess_Verbatim(response) == [status |-> 200, body |-> response.body]

\* (mutation) a peer's rejection is answered like an exhausted try order
SettleError_Unavailable(response) ==
  [status |-> 503,
   body |-> [success |-> FALSE, error |-> "Settle unavailable",
             txHash |-> "null", networkId |-> "null"]]

\* (mutation) the exhaustion answer without the settle-result fields
SettleUnavailable_Bare == [status |-> 503, body |-> [error |-> "Settle unavailable"]]

\* the body answered to a settle that a peer accepted or rejected
SettleSuccess(response) ==
  [status |-> 200,
   body |-> [success |-> TRUE, error |-> "null",
             txHash |-> IF response.body.txHash # Absent
                        THEN response.body.txHash ELSE "null",
             networkId |-> "null"]]

SettleError(response) ==
  [status |-> 400,
   body |-> [success |-> FALSE,
             error |-> IF response.body.error # Absent
                       THEN response.body.error ELSE "Settle error",
             txHash |-> "null", networkId |-> "null"]]

SettleUnavailable ==
  [status |-> 503,
   body |-> [success |-> FALSE, error |-> "Settle unavailable",
             txHash |-> "null", networkId |-> "null"]]

\* (mutation) the settle is sent to the whole try order at once
SettleAttempts_FanOut(order) == [i \in 1..Len(order) |-> InFlight(0)]

\* one settle attempt at a time: the first of the try order is in flight
SettleAttempts(order) ==
  [i \in 1..Len(order) |-> IF i = 1 THEN InFlight(0) ELSE Waiting]

\* (mutation) the pick is made among all known peer ids, active or not
PickRandom_Known(arr) == {peerIdToRecord[i].peerId : i \in 1..Len(peerIdToRecord)}

\* pickRandom(peers): any element of the array
PickRandom(arr) == Range(arr)

\* the peers the libp2p settle handler tries, in order
GwTryOrder(active, peerId) == <<peerId>>

\* (mutation) the settle is sent by peer id to every active peer at once
GwSettleStart_All(inbound) ==
  /\ binding = "libp2p" /\ Mounted
  /\ pc \in {"idle", "done"}
  /\ route' = "/rpc/settle"
  /\ body' = inbound
  /\ arrival' = <<>>
  /\ LET active == getActivePeers(peerIdToRecord, now)
     IN  /\ peers' = active
         /\ IF ~hasP2P \/ NoPeers(active)
            THEN /\ Respond(NoPeersAvailable)
                 /\ candidatePeers' = <<>>
                 /\ attempts' = <<>>
                 /\ sent' = <<>>
            ELSE \E peerId \in PickRandom(active) :
                   LET order == GwTryOrder(active, peerId)
                   IN  /\ candidatePeers' = order
                       /\ attempts' = SettleAttempts(order)
                       /\ sent' = [i \in 1..Len(active) |->
                                     ById(active[i], "/settle", ForwardBody(inbound))]
                       /\ pc' = "settle"
                       /\ res' = NoRes
  /\ UNCHANGED <<config, manager, silent, now, announced, listener, heard, peerIdToRecord>>
  /\ lastResponse' = NoResponse

\* router.post("/rpc/settle") of the libp2p gateway, up to its first await
GwSettleStart(inbound) ==
  /\ binding = "libp2p" /\ Mounted
  /\ pc \in {"idle", "done"}
  /\ route' = "/rpc/settle"
  /\ body' = inbound
  /\ arrival' = <<>>
  /\ LET active == getActivePeers(peerIdToRecord, now)
     IN  /\ peers' = active
         /\ IF ~hasP2P \/ NoPeers(active)
            THEN /\ Respond(NoPeersAvailable)
                 /\ candidatePeers' = <<>>
                 /\ attempts' = <<>>
                 /\ sent' = <<>>
            ELSE \E peerId \in PickRandom(active) :
                   LET order == GwTryOrder(active, peerId)
                   IN  /\ candidatePeers' = order
                       /\ attempts' = SettleAttempts(order)
                       /\ sent' = <<ById(order[1], "/settle", ForwardBody(inbound))>>
                       /\ pc' = "settle"
                       /\ res' = NoRes
  /\ UNCHANGED <<config, manager, silent, now, announced, listener, heard, peerIdToRecord>>
  /\ lastResponse' = NoResponse

\* the position of the try order whose settle attempt is in flight
Current == CHOOSE i \in 1..Len(attempts) : attempts[i].st = "inflight"

\* requestSettle or requestSettleByMultiaddr returns a response
GwSettleRespond(response) ==
  /\ binding = "libp2p" /\ pc = "settle"
  /\ \E i \in 1..Len(attempts) : attempts[i].st = "inflight"
  /\ Responds(candidatePeers[Current])
  /\ attempts' = [attempts EXCEPT ![Current] = Settled(@, Answered(response))]
  /\ arrival' = Append(arrival, Current)
  /\ Respond(IF response.status = 200 THEN SettleSuccess(response)
             ELSE SettleError(response))
  /\ UNCHANGED <<config, manager, silent, now, announced, listener, heard, peerIdToRecord, route, body,
                 peers, candidatePeers, sent>>
  /\ lastResponse' = response

\* it throws (sendRequest never times out by itself): the next known
\* multiaddr of the peer, if any
GwSettleThrow ==
  /\ binding = "libp2p" /\ pc = "settle"
  /\ \E i \in 1..Len(attempts) : attempts[i].st = "inflight"
  /\ Responds(candidatePeers[Current])
  /\ LET i == Current
         maddrs == peerIdToMultiaddrs(candidatePeers[i])
         next == attempts[i].stage + 1
     IN  IF next <= Len(maddrs)
         THEN /\ attempts' = [attempts EXCEPT ![i] = InFlight(next)]
              /\ sent' = Append(sent, ByMultiaddr(maddrs[next], "/settle", ForwardBody(body)))
              /\ arrival' = arrival
              /\ UNCHANGED <<pc, res>>
         ELSE /\ attempts' = [attempts EXCEPT ![i] = Settled(@, AttemptFail)]
              /\ arrival' = Append(arrival, i)
              /\ sent' = sent
              /\ Respond(SettleUnavailable)
  /\ UNCHANGED <<config, manager, silent, now, announced, listener, heard, peerIdToRecord, route, body,
                 peers, candidatePeers>>
  /\ lastResponse' = NoResponse

\* ---------------------------------------------------------- HTTP gateway
\* router.post("/rpc/verify") of the HTTP gateway in fan-out mode
HttpVerifyStart(inbound) ==
  /\ binding = "http" /\ options.verifyMode = "fanout"
  /\ pc \in {"idle", "done"}
  /\ route' = "/rpc/verify"
  /\ body' = inbound
  /\ arrival' = <<>>
  /\ peers' = options.httpPeers
  /\ IF Len(options.httpPeers) = 0
     THEN /\ Respond(HttpVerifyNoPeers)
          /\ candidatePeers' = <<>>
          /\ attempts' = <<>>
          /\ sent' = <<>>
     ELSE /\ candidatePeers' = options.httpPeers
          /\ attempts' = [i \in 1..Len(options.httpPeers) |-> InFlight(0)]
          /\ sent' = [i \in 1..Len(options.httpPeers) |->
                        ByUrl(options.httpPeers[i], "/verify", ForwardBody(inbound))]
          /\ pc' = "verify"
          /\ res' = NoRes
  /\ UNCHANGED <<config, manager, silent, now, announced, listener, heard, peerIdToRecord>>
  /\ lastResponse' = NoResponse

\* postJson of peer i returns a response
HttpVerifyRespond(i, response) ==
  /\ binding = "http" /\ pc = "verify"
  /\ i \in 1..Len(attempts) /\ attempts[i].st = "inflight"
  /\ Responds(candidatePeers[i])
  /\ attempts' = [attempts EXCEPT ![i] = Settled(@, Classify(response))]
  /\ arrival' = Append(arrival, i)
  /\ UNCHANGED <<config, manager, silent, now, announced, listener, heard, peerIdToRecord, pc, route, body,
                 peers, candidatePeers, sent, res>>
  /\ lastResponse' = response

\* postJson of peer i throws (network error, or abort at the timeout)
HttpVerifyThrow(i) ==
  /\ binding = "http" /\ pc = "verify"
  /\ i \in 1..Len(attempts) /\ attempts[i].st = "inflight"
  /\ attempts' = [attempts EXCEPT ![i] = Settled(@, AttemptFail)]
  /\ arrival' = Append(arrival, i)
  /\ UNCHANGED <<config, manager, silent, now, announced, listener, heard, peerIdToRecord, pc, route, body,
                 peers, candidatePeers, sent, res>>
  /\ lastResponse' = NoResponse

\* after await Promise.allSettled(attempts)
HttpVerifyReduce ==
  /\ binding = "http" /\ pc = "verify"
  /\ AllAttemptsSettled
  /\ LET results == AllSettled(attempts, arrival)
         response == HttpReduce(results, verifyQuorum)
     IN  Respond(response)
  /\ UNCHANGED <<config, manager, silent, now, announced, listener, heard, peerIdToRecord, route, body,
                 peers, candidatePeers, attempts, arrival, sent>>
  /\ lastResponse' = lastResponse

\* [...peers].sort(() => Math.random() - 0.5): some ordering of the peers
Shuffled(arr) == Perms(arr)

\* router.post("/rpc/settle") of the HTTP gateway, up to its first await
HttpSettleStart(inbound) ==
  /\ binding = "http"
  /\ pc \in {"idle", "done"}
  /\ route' = "/rpc/settle"
  /\ body' = inbound
  /\ arrival' = <<>>
  /\ peers' = options.httpPeers
  /\ IF Len(options.httpPeers) = 0
     THEN /\ Respond(HttpSettleNoPeers)
          /\ candidatePeers' = <<>>
          /\ attempts' = <<>>
          /\ sent' = <<>>
     ELSE \E shuffled \in Shuffled(options.httpPeers) :
            /\ candidatePeers' = shuffled
            /\ attempts' = SettleAttempts(shuffled)
            /\ sent' = <<ByUrl(shuffled[1], "/settle", ForwardBody(inbound))>>
            /\ pc' = "settle"
            /\ res' = NoRes
  /\ UNCHANGED <<config, manager, silent, now, announced, listener, heard, peerIdToRecord>>
  /\ lastResponse' = NoResponse

\* (mutation) the loop gives up after the first peer that failed
HttpSettleNext_GiveUp(i, out) ==
  /\ attempts' = [attempts EXCEPT ![i] = Settled(@, out)]
  /\ sent' = sent
  /\ Respond(SettleUnavailable)

\* the loop of the HTTP settle handler moves on from position i
HttpSettleNext(i, out) ==
  IF i < Len(candidatePeers)
  THEN /\ attempts' = [attempts EXCEPT ![i] = Settled(@, out),
                                       ![i + 1] = InFlight(0)]
       /\ sent' = Append(sent, ByUrl(candidatePeers[i + 1], "/settle", ForwardBody(body)))
       /\ UNCHANGED <<pc, res>>
  ELSE /\ attempts' = [attempts EXCEPT ![i] = Settled(@, out)]
       /\ sent' = sent
       /\ Respond(SettleUnavailable)

\* postJson of the current peer returns a response
HttpSettleRespond(response) ==
  /\ binding = "http" /\ pc = "settle"
  /\ \E i \in 1..Len(attempts) : attempts[i].st = "inflight"
  /\ Responds(candidatePeers[Current])
  /\ arrival' = Append(arrival, Current)
  /\ IF response.status = 200
     THEN /\ attempts' = [attempts EXCEPT ![Current] = Settled(@, Answered(response))]
          /\ sent' = sent
          /\ Respond([status |-> 200, body |-> response.body])
     ELSE HttpSettleNext(Current, Answered(response))
  /\ UNCHANGED <<config, manager, silent, now, announced, listener, heard, peerIdToRecord, route, body,
                 peers, candidatePeers>>
  /\ lastResponse' = response

\* postJson of the current peer throws
HttpSettleThrow ==
  /\ binding = "http" /\ pc = "settle"
  /\ \E i \in 1..Len(attempts) : attempts[i].st = "inflight"
  /\ arrival' = Append(arrival, Current)
  /\ HttpSettleNext(Current, AttemptFail)
  /\ UNCHANGED <<config, manager, silent, now, announced, listener, heard, peerIdToRecord, route, body,
                 peers, candidatePeers>>
  /\ lastResponse' = NoResponse

\* ---------------------------------------------- HTTP gateway, single mode
\* the answer of the single mode when every peer failed at transport level
VerifyUnavailable == [status |-> 503, body |-> [error |-> "Verification unavailable"]]

\* (mutation) the first non-200 response met is kept, later ones are dropped
LastError_First(atts) ==
  LET errs == {i \in 1..Len(atts) : atts[i].out.kind = "error"}
  IN  atts[CHOOSE i \in errs : \A j \in errs : i <= j].out

\* let lastError: set at each non-200 response, so after the loop it is the
\* response of the last peer, in try order, that returned a non-200
HasLastError(atts) == \E i \in 1..Len(atts) : atts[i].out.kind = "error"
LastError(atts) ==
  LET errs == {i \in 1..Len(atts) : atts[i].out.kind = "error"}
  IN  atts[CHOOSE i \in errs : \A j \in errs : i >= j].out

\* router.post("/rpc/verify") of the HTTP gateway in single mode, up to the
\* first await of the loop
HttpSingleStart(inbound) ==
  /\ binding = "http" /\ options.verifyMode = "single"
  /\ pc \in {"idle", "done"}
  /\ route' = "/rpc/verify"
  /\ body' = inbound
  /\ arrival' = <<>>
  /\ peers' = options.httpPeers
  /\ IF Len(options.httpPeers) = 0
     THEN /\ Respond(HttpVerifyNoPeers)
          /\ candidatePeers' = <<>>
          /\ attempts' = <<>>
          /\ sent' = <<>>
     ELSE \E shuffled \in Shuffled(options.httpPeers) :
            /\ candidatePeers' = shuffled
            /\ attempts' = SettleAttempts(shuffled)
            /\ sent' = <<ByUrl(shuffled[1], "/verify", ForwardBody(inbound))>>
            /\ pc' = "single"
            /\ res' = NoRes
  /\ UNCHANGED <<config, manager, silent, now, announced, listener, heard, peerIdToRecord>>
  /\ lastResponse' = NoResponse

\* the loop of the single mode moves on from position i: the next peer is
\* called, or the loop is over and the handler answers from lastError
HttpSingleNext(i, out) ==
  IF i < Len(candidatePeers)
  THEN /\ attempts' = [attempts EXCEPT ![i] = Settled(@, out),
                                       ![i + 1] = InFlight(0)]
       /\ sent' = Append(sent, ByUrl(candidatePeers[i + 1], "/verify", ForwardBody(body)))
       /\ UNCHANGED <<pc, res>>
  ELSE LET atts == [attempts EXCEPT ![i] = Settled(@, out)]
       IN  /\ attempts' = atts
           /\ sent' = sent
           /\ Respond(IF HasLastError(atts)
                      THEN [status |-> 400, body |-> LastError(atts).body]
                      ELSE VerifyUnavailable)

\* postJson of the current peer returns a response
HttpSingleRespond(response) ==
  /\ binding = "http" /\ pc = "single"
  /\ \E i \in 1..Len(attempts) : attempts[i].st = "inflight"
  /\ Responds(candidatePeers[Current])
  /\ arrival' = Append(arrival, Current)
  /\ IF response.status = 200
     THEN /\ attempts' = [attempts EXCEPT ![Current] = Settled(@, Classify(response))]
          /\ sent' = sent
          /\ Respond([status |-> 200,
                      body |-> [json |-> IF response.body.json = "true"
                                         THEN "true" ELSE "false"]])
     ELSE HttpSingleNext(Current, AttemptError(response))
  /\ UNCHANGED <<config, manager, silent, now, announced, listener, heard, peerIdToRecord, route, body,
                 peers, candidatePeers>>
  /\ lastResponse' = response

\* postJson of the current peer throws (network error, or abort at the timeout)
HttpSingleThrow ==
  /\ binding = "http" /\ pc = "single"
  /\ \E i \in 1..Len(attempts) : attempts[i].st = "inflight"
  /\ arrival' = Append(arrival, Current)
  /\ HttpSingleNext(Current, AttemptFail)
  /\ UNCHANGED <<config, manager, silent, now, announced, listener, heard, peerIdToRecord, route, body,
                 peers, candidatePeers>>
  /\ lastResponse' = NoResponse

\* ----------------------------------------------------------- environment
\* the topic the peers publish their capabilities on
AnnouncementsTopic == "x402/1.0/announcements"

\* detail.from of a message that carries no sender
NoSender == 0

\* detail.data of a message: missing, text that JSON.parse rejects, or the
\* JSON.stringify({version: 1, kinds}) a peer publishes
NoData == [kinds |-> {}, present |-> FALSE, parses |-> FALSE]
Garbage == [kinds |-> {}, present |-> TRUE, parses |-> FALSE]
Published(kinds) == [kinds |-> kinds, present |-> TRUE, parses |-> TRUE]

\* no message was handed to the listener yet
NoMsg == [topic |-> "", from |-> NoSender, data |-> NoData]

\* the announcements that peers publish
ValidMessages ==
  {[topic |-> AnnouncementsTopic, from |-> p, data |-> Published(k)] :
     p \in Peers, k \in AnnouncedKinds}

\* messages of another topic, without data, with an unparseable payload,
\* without sender, or announcing no kinds
MalformedMessages ==
  {[topic |-> "other", from |-> 1, data |-> Published({"base-sepolia"})],
   [topic |-> AnnouncementsTopic, from |-> 1, data |-> NoData],
   [topic |-> AnnouncementsTopic, from |-> 1, data |-> Garbage],
   [topic |-> AnnouncementsTopic, from |-> NoSender, data |-> Published({"base-sepolia"})],
   [topic |-> AnnouncementsTopic, from |-> 1, data |-> Published({})]}

Messages == ValidMessages \cup MalformedMessages

\* (mutation) an announcement without kinds is passed on to the handlers
Accepts_AnyKinds(msg) ==
  /\ msg.topic = AnnouncementsTopic
  /\ msg.data.present
  /\ msg.data.parses
  /\ msg.from # NoSender

\* the listener reaches its loop over announcementHandlers: the topic is the
\* announcements topic, there is data, JSON.parse does not throw, and
\* !peerId || kinds.length === 0 is false
Accepts(msg) ==
  /\ msg.topic = AnnouncementsTopic
  /\ msg.data.present
  /\ msg.data.parses
  /\ ~(msg.from = NoSender \/ msg.data.kinds = {})

\* the pubsub "message" listener of the node: an accepted message is passed to
\* the handlers registered with onAnnouncement (the gateway's upsert, when it
\* could register one); any other message is dropped, exceptions included
OnMessage(msg) ==
  /\ binding = "libp2p" /\ hasP2P
  /\ announced < MaxAnnounce
  /\ announced' = announced + 1
  /\ lastMsg' = msg
  /\ IF Accepts(msg)
     THEN /\ heard' = [heard EXCEPT ![msg.from] =
                         [kinds |-> msg.data.kinds, at |-> now]]
          /\ peerIdToRecord' =
               IF hasOnAnnouncement
               THEN OnAnnouncement(peerIdToRecord, msg.from, msg.data.kinds, now)
               ELSE peerIdToRecord
          /\ dropped' = dropped
     ELSE /\ dropped' = dropped + 1
          /\ UNCHANGED <<heard, peerIdToRecord>>
  /\ UNCHANGED <<config, manager, silent, now, request>>

\* the listener receives the announcement that peerId publishes (non-empty
\* kinds)
Announce(peerId, kinds) ==
  OnMessage([topic |-> AnnouncementsTopic, from |-> peerId,
             data |-> Published(kinds)])

\* time passes
Tick ==
  /\ now < MaxTime
  /\ now' = now + 1
  /\ UNCHANGED <<config, manager, silent, announced, listener, heard, peerIdToRecord, request>>

\* ----------------------------------------------------------- P2PManager
\* everything but the manager's own fields
gateway ==
  <<config, silent, now, announced, listener, heard, peerIdToRecord, request>>

\* the functions that callers register as announcement handlers
Handlers == {"h1", "h2"}

\* no run of the loop over the handlers yet
NoDispatch == [started |-> <<>>, invoked |-> <<>>, selfUnsub |-> {}]

\* the manager after new P2PManager(...): no handler, no node, no timer
ManagerInit ==
  /\ announcementHandlers = <<>>
  /\ subscriptions = <<>>
  /\ lastDispatch = NoDispatch
  /\ node = 0
  /\ running = {}
  /\ created = 0
  /\ starting = 0
  /\ stopping = 0
  /\ timers = 0

\* arr.indexOf(x): the first position that holds x (positions count from 1
\* here, and 0 stands for -1)
IndexOf(arr, x) ==
  IF \E i \in 1..Len(arr) : arr[i] = x
  THEN CHOOSE i \in 1..Len(arr) :
         arr[i] = x /\ \A j \in 1..(i - 1) : arr[j] # x
  ELSE 0

\* arr.splice(idx, 1)
Splice(arr, idx) ==
  [i \in 1..(Len(arr) - 1) |-> IF i < idx THEN arr[i] ELSE arr[i + 1]]

\* the token returned by onAnnouncement(handler):
\* idx = indexOf(handler); if (idx >= 0) splice(idx, 1)
Unsubscribe(arr, handler) ==
  LET idx == IndexOf(arr, handler)
  IN  IF idx >= 1 THEN Splice(arr, idx) ELSE arr

\* onAnnouncement(handler): push, and hand out a token
onAnnouncement(handler) ==
  /\ Len(subscriptions) < MaxSubs
  /\ announcementHandlers' = Append(announcementHandlers, handler)
  /\ subscriptions' = Append(subscriptions, [fn |-> handler, calls |-> 0])
  /\ UNCHANGED <<gateway, lastDispatch, lifecycle>>

\* the token of the k-th onAnnouncement call is called, outside any dispatch
CallToken(k) ==
  /\ k \in 1..Len(subscriptions)
  /\ subscriptions[k].calls < MaxCalls
  /\ announcementHandlers' = Unsubscribe(announcementHandlers, subscriptions[k].fn)
  /\ subscriptions' = [subscriptions EXCEPT ![k].calls = @ + 1]
  /\ UNCHANGED <<gateway, lastDispatch, lifecycle>>

\* the token a handler function holds: that of its first registration
TokenOf(subs, handler) ==
  CHOOSE k \in 1..Len(subs) :
    subs[k].fn = handler /\ \A j \in 1..(k - 1) : subs[j].fn # handler

\* for (const handler of this.announcementHandlers) { handler(peerId, kinds) }
\* from position idx on: the array iterator reads the live array by index;
\* a handler of selfUnsub calls its token from inside its callback
RECURSIVE RunHandlers(_, _, _, _, _)
RunHandlers(arr, subs, idx, invoked, selfUnsub) ==
  IF idx > Len(arr)
  THEN [arr |-> arr, subs |-> subs, invoked |-> invoked]
  ELSE LET handler == arr[idx]
           k == TokenOf(subs, handler)
       IN  IF handler \in selfUnsub
           THEN RunHandlers(Unsubscribe(arr, handler),
                            [subs EXCEPT ![k].calls =
                                IF @ < MaxCalls THEN @ + 1 ELSE @],
                            idx + 1, Append(invoked, handler), selfUnsub)
           ELSE RunHandlers(arr, subs, idx + 1, Append(invoked, handler),
                            selfUnsub)

\* the listener accepted an announcement and runs its loop over the handlers
Dispatch(selfUnsub) ==
  /\ LET out == RunHandlers(announcementHandlers, subscriptions, 1, <<>>, selfUnsub)
     IN  /\ announcementHandlers' = out.arr
         /\ subscriptions' = out.subs
         /\ lastDispatch' = [started |-> announcementHandlers,
                             invoked |-> out.invoked,
                             selfUnsub |-> selfUnsub]
  /\ UNCHANGED <<gateway, lifecycle>>

\* start() up to its first await: if (!this.conf.enabled || this.node) return
StartCall ==
  /\ node = 0
  /\ created + starting < MaxNodes
  /\ starting' = starting + 1
  /\ UNCHANGED <<gateway, handlers, node, running, created, stopping, timers>>

\* start() after its awaits: this.node = await createLibp2p(...), the
\* protocol handlers, announce() and setInterval(announce, 60_000)
StartCreated ==
  /\ starting > 0
  /\ starting' = starting - 1
  /\ created' = created + 1
  /\ node' = created + 1
  /\ running' = running \cup {created + 1}
  /\ timers' = timers + 1
  /\ UNCHANGED <<gateway, handlers, stopping>>

\* stop() up to its await: if (!this.node) return; await this.node.stop()
StopCall ==
  /\ node # 0
  /\ stopping < MaxNodes
  /\ stopping' = stopping + 1
  /\ running' = running \ {node}
  /\ UNCHANGED <<gateway, handlers, node, created, starting, timers>>

\* stop() after its await: this.node = undefined
StopDone ==
  /\ stopping > 0
  /\ stopping' = stopping - 1
  /\ node' = 0
  /\ UNCHANGED <<gateway, handlers, running, created, starting, timers>>

\* ------------------------------------------------------------------ spec
\* options.peerMultiaddrs: how many addresses are known per peer
\* (none, or MaxAddrs addresses of peer 1)
AddrConfigs ==
  {[p \in Peers |-> IF p = 1 THEN n ELSE 0] : n \in {0, MaxAddrs}}

NoAddrs == [p \in Peers |-> 0]

GwOptions ==
  [staticPeers : {Prefix(n) : n \in 0..NumPeers},
   verifyQuorum : 1..MaxQuorum,
   peerMultiaddrs : AddrConfigs,
   httpPeers : {<<>>},
   verifyMode : {"fanout"}]

HttpOptions ==
  [staticPeers : {<<>>},
   verifyQuorum : 1..MaxQuorum,
   peerMultiaddrs : {NoAddrs},
   httpPeers : {Prefix(n) : n \in 0..NumPeers},
   verifyMode : {"fanout"}]

Init ==
  /\ binding \in {"libp2p", "http"}
  /\ options \in IF binding = "libp2p" THEN GwOptions ELSE HttpOptions
  /\ hasP2P \in IF binding = "libp2p" THEN BOOLEAN ELSE {FALSE}
  /\ hasOnAnnouncement \in IF hasP2P THEN BOOLEAN ELSE {FALSE}
  /\ now = 1
  /\ announced = 0
  /\ lastMsg = NoMsg
  /\ dropped = 0
  /\ silent = {}
  /\ ManagerInit
  /\ lastResponse = NoResponse
  /\ heard = [p \in Peers |-> NotHeard]
  /\ peerIdToRecord = SeedStatic(options.staticPeers)
  /\ pc = "idle"
  /\ route = ""
  /\ body = EmptyBody
  /\ peers = <<>>
  /\ candidatePeers = <<>>
  /\ attempts = <<>>
  /\ arrival = <<>>
  /\ sent = <<>>
  /\ res = NoRes

Next ==
  \/ \E inbound \in InboundBodies : GwVerifyStart(inbound)
  \/ \E i \in 1..NumPeers, response \in VerifyResponses : GwVerifyRespond(i, response)
  \/ \E i \in 1..NumPeers : GwVerifyThrow(i)
  \/ GwVerifyReduce
  \/ \E inbound \in InboundBodies : GwSettleStart(inbound)
  \/ \E response \in SettleResponses : GwSettleRespond(response)
  \/ GwSettleThrow
  \/ \E inbound \in InboundBodies : HttpVerifyStart(inbound)
  \/ \E i \in 1..NumPeers, response \in VerifyResponses : HttpVerifyRespond(i, response)
  \/ \E i \in 1..NumPeers : HttpVerifyThrow(i)
  \/ HttpVerifyReduce
  \/ \E inbound \in InboundBodies : HttpSettleStart(inbound)
  \/ \E response \in SettleResponses : HttpSettleRespond(response)
  \/ HttpSettleThrow
  \/ \E peerId \in Peers, kinds \in AnnouncedKinds : Announce(peerId, kinds)
  \/ Tick

Spec == Init /\ [][Next]_vars

\* The listener alone: a libp2p gateway whose node is handed any pubsub
\* message, well-formed or not, while time passes.
InitListener ==
  /\ Init
  /\ binding = "libp2p" /\ hasP2P
  /\ options.verifyQuorum = 1
  /\ options.peerMultiaddrs = NoAddrs

NextListener ==
  \/ \E msg \in Messages : OnMessage(msg)
  \/ Tick

SpecListener == InitListener /\ [][NextListener]_vars

\* Verify requests on gateways configured with any quorum, zero and negative
\* included.  Every peer announced is active (no clock).
ConfiguredQuorums == -1..MaxQuorum

InitQuorum ==
  /\ binding \in {"libp2p", "http"}
  /\ options \in
       {[o EXCEPT !.verifyQuorum = q] :
          o \in IF binding = "libp2p"
                THEN {g \in GwOptions : g.staticPeers = <<>> /\ g.verifyQuorum = 1}
                ELSE {h \in HttpOptions : h.verifyQuorum = 1},
          q \in ConfiguredQuorums}
  /\ hasP2P = (binding = "libp2p")
  /\ hasOnAnnouncement = hasP2P
  /\ silent = {}
  /\ ManagerInit
  /\ lastResponse = NoResponse
  /\ now = 1
  /\ announced = 0
  /\ lastMsg = NoMsg
  /\ dropped = 0
  /\ heard = [p \in Peers |-> NotHeard]
  /\ peerIdToRecord = SeedStatic(options.staticPeers)
  /\ pc = "idle"
  /\ route = ""
  /\ body = EmptyBody
  /\ peers = <<>>
  /\ candidatePeers = <<>>
  /\ attempts = <<>>
  /\ arrival = <<>>
  /\ sent = <<>>
  /\ res = NoRes

NextQuorum ==
  \/ \E inbound \in InboundBodies : GwVerifyStart(inbound)
  \/ \E i \in 1..NumPeers, response \in VerifyResponses : GwVerifyRespond(i, response)
  \/ \E i \in 1..NumPeers : GwVerifyThrow(i)
  \/ GwVerifyReduce
  \/ \E inbound \in InboundBodies : HttpVerifyStart(inbound)
  \/ \E i \in 1..NumPeers, response \in VerifyResponses : HttpVerifyRespond(i, response)
  \/ \E i \in 1..NumPeers : HttpVerifyThrow(i)
  \/ HttpVerifyReduce
  \/ \E peerId \in Peers, kinds \in AnnouncedKinds : Announce(peerId, kinds)

SpecQuorum == InitQuorum /\ [][NextQuorum]_vars

\* The libp2p gateway with up to MaxFallbackAddrs configured multiaddrs for
\* peer 1.  Every peer announced is active (no clock).
InitFallback ==
  /\ binding = "libp2p"
  /\ options \in
       {[g EXCEPT !.peerMultiaddrs = [p \in Peers |-> IF p = 1 THEN n ELSE 0]] :
          g \in {o \in GwOptions : /\ o.staticPeers = <<>>
                                   /\ o.verifyQuorum = 1
                                   /\ o.peerMultiaddrs = NoAddrs},
          n \in 0..MaxFallbackAddrs}
  /\ hasP2P = TRUE
  /\ hasOnAnnouncement = TRUE
  /\ silent = {}
  /\ ManagerInit
  /\ lastResponse = NoResponse
  /\ now = 1
  /\ announced = 0
  /\ lastMsg = NoMsg
  /\ dropped = 0
  /\ heard = [p \in Peers |-> NotHeard]
  /\ peerIdToRecord = SeedStatic(options.staticPeers)
  /\ pc = "idle"
  /\ route = ""
  /\ body = EmptyBody
  /\ peers = <<>>
  /\ candidatePeers = <<>>
  /\ attempts = <<>>
  /\ arrival = <<>>
  /\ sent = <<>>
  /\ res = NoRes

NextFallback ==
  \/ \E inbound \in InboundBodies : GwVerifyStart(inbound)
  \/ \E i \in 1..NumPeers, response \in VerifyResponses : GwVerifyRespond(i, response)
  \/ \E i \in 1..NumPeers : GwVerifyThrow(i)
  \/ GwVerifyReduce
  \/ \E inbound \in InboundBodies : GwSettleStart(inbound)
  \/ \E response \in SettleResponses : GwSettleRespond(response)
  \/ GwSettleThrow
  \/ \E peerId \in Peers, kinds \in AnnouncedKinds : Announce(peerId, kinds)

SpecFallback == InitFallback /\ [][NextFallback]_vars

\* The P2PManager alone: handlers are registered and unregistered,
\* announcements are dispatched, start() and stop() calls overlap.
InitManager ==
  /\ Init
  /\ binding = "libp2p" /\ hasP2P /\ hasOnAnnouncement
  /\ options.staticPeers = <<>>
  /\ options.verifyQuorum = 1
  /\ options.peerMultiaddrs = NoAddrs

NextManager ==
  \/ \E handler \in Handlers : onAnnouncement(handler)
  \/ \E k \in 1..MaxSubs : CallToken(k)
  \/ \E selfUnsub \in SUBSET Handlers : Dispatch(selfUnsub)
  \/ StartCall
  \/ StartCreated
  \/ StopCall
  \/ StopDone

SpecManager == InitManager /\ [][NextManager]_vars

\* Verify requests whose peers answer anything: booleans, other status-200
\* bodies, errors.  Quorum 1, every peer announced is active (no clock).
InitClassify ==
  /\ InitQuorum
  /\ options.verifyQuorum = 1

NextClassify ==
  \/ \E inbound \in InboundBodies : GwVerifyStart(inbound)
  \/ \E i \in 1..NumPeers, response \in AnyVerifyResponses : GwVerifyRespond(i, response)
  \/ \E i \in 1..NumPeers : GwVerifyThrow(i)
  \/ GwVerifyReduce
  \/ \E inbound \in InboundBodies : HttpVerifyStart(inbound)
  \/ \E i \in 1..NumPeers, response \in AnyVerifyResponses : HttpVerifyRespond(i, response)
  \/ \E i \in 1..NumPeers : HttpVerifyThrow(i)
  \/ HttpVerifyReduce
  \/ \E peerId \in Peers, kinds \in AnnouncedKinds : Announce(peerId, kinds)

SpecClassify == InitClassify /\ [][NextClassify]_vars

\* Verify requests on HTTP gateways configured with verifyMode "single";
\* the peers answer anything, or the call fails.
HttpSingleOptions == {[o EXCEPT !.verifyMode = "single"] : o \in HttpOptions}

InitSingle ==
  /\ binding = "http"
  /\ options \in HttpSingleOptions
  /\ hasP2P = FALSE
  /\ hasOnAnnouncement = FALSE
  /\ silent = {}
  /\ ManagerInit
  /\ lastResponse = NoResponse
  /\ now = 1
  /\ announced = 0
  /\ lastMsg = NoMsg
  /\ dropped = 0
  /\ heard = [p \in Peers |-> NotHeard]
  /\ peerIdToRecord = SeedStatic(options.staticPeers)
  /\ pc = "idle"
  /\ route = ""
  /\ body = EmptyBody
  /\ peers = <<>>
  /\ candidatePeers = <<>>
  /\ attempts = <<>>
  /\ arrival = <<>>
  /\ sent = <<>>
  /\ res = NoRes

NextSingle ==
  \/ \E inbound \in InboundBodies : HttpSingleStart(inbound)
  \/ \E response \in AnyVerifyResponses : HttpSingleRespond(response)
  \/ HttpSingleThrow

SpecSingle == InitSingle /\ [][NextSingle]_vars

\* Requests against peers some of which stay silent.  Every peer announced
\* is active (no clock), the libp2p gateway has its handler subscribed.
InitLive ==
  /\ binding \in {"libp2p", "http"}
  /\ options \in IF binding = "libp2p"
                 THEN {o \in GwOptions : o.staticPeers = <<>> /\ o.verifyQuorum = 1}
                 ELSE {o \in HttpOptions : o.verifyQuorum = 1}
  /\ hasP2P = (binding = "libp2p")
  /\ hasOnAnnouncement = hasP2P
  /\ silent \in SUBSET Peers
  /\ ManagerInit
  /\ lastResponse = NoResponse
  /\ now = 1
  /\ announced = 0
  /\ lastMsg = NoMsg
  /\ dropped = 0
  /\ heard = [p \in Peers |-> NotHeard]
  /\ peerIdToRecord = SeedStatic(options.staticPeers)
  /\ pc = "idle"
  /\ route = ""
  /\ body = EmptyBody
  /\ peers = <<>>
  /\ candidatePeers = <<>>
  /\ attempts = <<>>
  /\ arrival = <<>>
  /\ sent = <<>>
  /\ res = NoRes

\* what moves a request forward: a peer's response, a failed or aborted
\* call, the handler's continuation after its awaits
Progress ==
  \/ \E i \in 1..NumPeers, response \in VerifyResponses : GwVerifyRespond(i, response)
  \/ \E i \in 1..NumPeers : GwVerifyThrow(i)
  \/ GwVerifyReduce
  \/ \E response \in SettleResponses : GwSettleRespond(response)
  \/ GwSettleThrow
  \/ \E i \in 1..NumPeers, response \in VerifyResponses : HttpVerifyRespond(i, response)
  \/ \E i \in 1..NumPeers : HttpVerifyThrow(i)
  \/ HttpVerifyReduce
  \/ \E response \in SettleResponses : HttpSettleRespond(response)
  \/ HttpSettleThrow

NextLive ==
  \/ \E inbound \in InboundBodies : GwVerifyStart(inbound)
  \/ \E inbound \in InboundBodies : GwSettleStart(inbound)
  \/ \E inbound \in InboundBodies : HttpVerifyStart(inbound)
  \/ \E inbound \in InboundBodies : HttpSettleStart(inbound)
  \/ \E peerId \in Peers, kinds \in AnnouncedKinds : Announce(peerId, kinds)
  \/ Progress

\* Fairness: a peer that is not silent answers or its connection fails, the
\* abort timer of postJson fires, and the event loop runs a handler's
\* continuation once its promises have settled.
SpecLive == InitLive /\ [][NextLive]_vars /\ WF_vars(Progress)


\* ----------------------------------------------------------------- claims
\* the outcome of the attempt at position i of candidatePeers
Outcome(i) == attempts[i].out
Positions == 1..Len(attempts)
NumTrue == Cardinality({i \in Positions : Outcome(i).kind = "true"})
AnyOutcome(kind) == \E i \in Positions : Outcome(i).kind = kind
AllFail == \A i \in Positions : Outcome(i).kind = "fail"

\* a verify request that fanned out to its candidates (the libp2p gateway, or
\* the HTTP gateway in its default fan-out mode) has been answered
VerifyAnswered ==
  /\ pc = "done"
  /\ route = "/rpc/verify"
  /\ Len(candidatePeers) > 0
  /\ (binding = "http") => (options.verifyMode = "fanout")

\* the answer says valid=true ({isValid:true, invalidReason:null}, or true over HTTP)
AnsweredValid ==
  /\ res.status = 200
  /\ res.body \in {[isValid |-> TRUE, invalidReason |-> "null"], [json |-> "true"]}

\* the position of the first candidate, in the candidates' order, whose
\* outcome is an application error
FirstErrorPosition ==
  CHOOSE i \in Positions :
    /\ Outcome(i).kind = "error"
    /\ \A j \in Positions : (Outcome(j).kind = "error") => (i <= j)

\* the invalid reason the libp2p gateway gives for the error of position i
ReasonOf(i) ==
  IF Outcome(i).body.error # Absent THEN Outcome(i).body.error
  ELSE "Verification error"

\* C1: a verify that fanned out to a non-empty candidate set is answered
\* valid=true exactly when the number of candidates whose outcome is True is
\* at least the quorum, in both gateways and whatever the order in which the
\* attempts settled.
C1_ValidIffQuorum ==
  VerifyAnswered => (AnsweredValid <=> (NumTrue >= verifyQuorum))

\* C1 witness: quorum 2 met by two candidates that settled in reverse order.
C1_Witness ==
  /\ VerifyAnswered
  /\ verifyQuorum = 2
  /\ NumTrue = 2
  /\ arrival = <<2, 1>>
  /\ AnsweredValid

\* C5: a request that found no active peer on arrival is answered 503 at once
\* and nothing was sent to any peer or address for it.
C5_NoPeersUnavailable ==
  (route # "" /\ Len(peers) = 0) =>
    (pc = "done" /\ res.status = 503 /\ sent = <<>>)

\* C5 witness: a settle answered 503 by the libp2p gateway with p2p present:
\* the only known peer has expired.
C5_Witness ==
  /\ binding = "libp2p" /\ hasP2P
  /\ pc = "done" /\ route = "/rpc/settle"
  /\ Len(peerIdToRecord) > 0
  /\ Len(peers) = 0
  /\ res.status = 503
  /\ sent = <<>>

\* C6: with quorum 1, one True outcome makes the libp2p gateway answer
\* 200 {isValid:true, invalidReason:null}, whatever the other outcomes are.
C6_FirstSuccessDominates ==
  (VerifyAnswered /\ binding = "libp2p" /\ verifyQuorum = 1 /\ NumTrue >= 1) =>
    res = [status |-> 200, body |-> [isValid |-> TRUE, invalidReason |-> "null"]]

\* C6 witness: quorum 1, one candidate true and another one false.
C6_Witness ==
  /\ VerifyAnswered /\ binding = "libp2p" /\ verifyQuorum = 1
  /\ NumTrue = 1
  /\ AnyOutcome("false")
  /\ res.body = [isValid |-> TRUE, invalidReason |-> "null"]

\* C7: below the quorum, one False outcome makes the libp2p gateway answer
\* 200 {isValid:false, invalidReason:null}, whatever errors or failures the
\* other candidates ended with.
C7_FalseBelowQuorum ==
  (VerifyAnswered /\ binding = "libp2p" /\ NumTrue < verifyQuorum /\ AnyOutcome("false")) =>
    res = [status |-> 200, body |-> [isValid |-> FALSE, invalidReason |-> "null"]]

\* C7 witness: quorum 2, one candidate true and the other false.
C7_Witness ==
  /\ VerifyAnswered /\ binding = "libp2p" /\ verifyQuorum = 2
  /\ NumTrue = 1
  /\ AnyOutcome("false")
  /\ res = [status |-> 200, body |-> [isValid |-> FALSE, invalidReason |-> "null"]]

\* C8: with no True and no False outcome and at least one application error,
\* the libp2p gateway answers valid=false with the reason of the first
\* erroring candidate in the candidates' order, not of the first to settle.
C8_FirstErrorInCandidateOrder ==
  (/\ VerifyAnswered /\ binding = "libp2p"
   /\ ~AnyOutcome("true") /\ ~AnyOutcome("false") /\ AnyOutcome("error")) =>
    /\ res.body.isValid = FALSE
    /\ res.body.invalidReason = ReasonOf(FirstErrorPosition)

\* C8 witness: the first candidate's error ("bad") is reported although the
\* second candidate's error (no message) settled first.
C8_Witness ==
  /\ VerifyAnswered /\ binding = "libp2p"
  /\ Len(attempts) = 2
  /\ Outcome(1).kind = "error" /\ Outcome(1).body.error = "bad"
  /\ Outcome(2).kind = "error" /\ Outcome(2).body.error = Absent
  /\ arrival = <<2, 1>>
  /\ res.body = [isValid |-> FALSE, invalidReason |-> "bad"]

\* the multiaddr requests sent to the peer of position i
AddrsTried(i) ==
  {k \in 1..Len(sent) : sent[k].via = "multiaddr" /\ sent[k].to = candidatePeers[i]}

\* C10 (as claimed): a verify that fanned out is answered 503 "Verification
\* unavailable" exactly when every candidate's attempt ended in a transport
\* failure: never when a candidate yielded True, False or an application error.
C10_UnavailableIffAllFail ==
  VerifyAnswered =>
    ((res = [status |-> 503, body |-> [error |-> "Verification unavailable"]]) <=> AllFail)

\* C10 (amended): a verify that fanned out is answered 503 "Verification
\* unavailable" exactly when the True outcomes are fewer than the quorum and
\* no candidate yielded False or an application error - so whenever every
\* attempt ended in a transport failure, and an attempt ends so only after each
\* known multiaddr of its peer was tried - and also when some candidates
\* yielded True without reaching the quorum.
C10_UnavailableBelowQuorum ==
  VerifyAnswered =>
    /\ (res = [status |-> 503, body |-> [error |-> "Verification unavailable"]]) <=>
         (NumTrue < verifyQuorum /\ ~AnyOutcome("false") /\ ~AnyOutcome("error"))
    /\ AllFail => (res.status = 503)
    /\ \A i \in Positions :
         (Outcome(i).kind = "fail") =>
           (Cardinality(AddrsTried(i)) = Len(peerIdToMultiaddrs(candidatePeers[i])))

\* C10 witness: two candidates, one of them with a known multiaddr, all failed.
C10_Witness ==
  /\ VerifyAnswered /\ binding = "libp2p"
  /\ Len(attempts) = 2
  /\ AllFail
  /\ \E i \in Positions : AddrsTried(i) # {}
  /\ res.status = 503


\* a settle request that found active peers, and the requests sent for it
SettleStarted ==
  /\ route = "/rpc/settle"
  /\ Len(sent) > 0

SettleAnswered == SettleStarted /\ pc = "done"

\* the peers that reported true in the verify that has just been answered
TruePeers == {candidatePeers[i] : i \in {j \in Positions : Outcome(j).kind = "true"}}

\* C2 (as claimed): when the request answered last was a verify answered
\* valid for a correlation key, and a settle with the same key arrives within
\* the sticky window (the clock starts at 1, so no more than now - 1 ticks have
\* passed since that verify) while a peer that reported true is active, the
\* first settle attempt goes to a peer that reported true in that verify.
C2_StickySettle ==
  [][(/\ VerifyAnswered /\ AnsweredValid /\ binding = "libp2p"
      /\ route' = "/rpc/settle"
      /\ CorrelationKey(body) # ""
      /\ CorrelationKey(body') = CorrelationKey(body)
      /\ now' - 1 <= StickyTtlMs
      /\ \E p \in TruePeers : p \in Range(peers'))
     => (Len(sent') > 0 /\ sent'[1].to \in TruePeers)]_vars

\* C2 (amended): the first settle attempt of the libp2p gateway goes, by peer
\* id, to one of the peers that were active when the settle arrived, whatever
\* an earlier verify returned: no peer is preferred.
C2_SettleGoesToAnActivePeer ==
  (SettleStarted /\ binding = "libp2p") =>
    /\ sent[1].via = "peerId"
    /\ sent[1].to \in Range(peers)
    /\ candidatePeers = <<sent[1].to>>

\* C2 witness: with two active peers the settle went to the second one.
C2_Witness ==
  /\ SettleStarted /\ binding = "libp2p"
  /\ Len(peers) = 2
  /\ sent[1].to = peers[2]

\* the peers (by id, address or url) that were sent the settle
SettleTargets == {sent[k].to : k \in 1..Len(sent)}

\* C3 (as claimed): when more than one peer is active and the settle is
\* answered with a failure, a peer other than the first chosen one was sent
\* the settle before that answer.
C3_AnotherPeerTried ==
  (SettleAnswered /\ Len(peers) > 1 /\ res.status # 200) =>
    (\E p \in SettleTargets : p # sent[1].to)

\* C3 (amended): the HTTP gateway answers a settle with a failure only after
\* every configured peer was sent the settle; the libp2p gateway sends it to
\* the one chosen peer only (by id, then by its known multiaddrs) and answers
\* the failure without trying another peer.
C3_OnlyHttpTriesOthers ==
  (SettleAnswered /\ res.status # 200) =>
    IF binding = "http"
    THEN SettleTargets = Range(peers)
    ELSE SettleTargets = {sent[1].to}

\* C3 witness: the HTTP gateway with two peers answers 503 after both failed.
C3_Witness ==
  /\ SettleAnswered /\ binding = "http"
  /\ Len(peers) = 2
  /\ res.status = 503
  /\ Len(sent) = 2
  /\ sent[1].to # sent[2].to

\* the positions of the try order whose attempt got a status 200
Accepted == {i \in Positions : Outcome(i).kind = "response" /\ Outcome(i).status = 200}

C9_StatusForwarded ==
  (VerifyAnswered /\ ~AnyOutcome("true") /\ ~AnyOutcome("false") /\ AnyOutcome("error")) =>
    (res.status = Outcome(FirstErrorPosition).status)

\* C9 (amended): in that case the verify is answered with status 400 whatever
\* status the peer gave; the libp2p gateway reports the first error's message
\* as the invalid reason ("Verification error" when it has none) and the HTTP
\* gateway forwards the first error's body.
C9_ErrorAnswered400 ==
  (VerifyAnswered /\ ~AnyOutcome("true") /\ ~AnyOutcome("false") /\ AnyOutcome("error")) =>
    /\ res.status = 400
    /\ (binding = "libp2p") =>
         (res.body = [isValid |-> FALSE, invalidReason |-> ReasonOf(FirstErrorPosition)])
    /\ (binding = "http") => (res.body = Outcome(FirstErrorPosition).body)

\* C9 witness: the only error came with status 500 and is answered 400.
C9_Witness ==
  /\ VerifyAnswered
  /\ ~AnyOutcome("true") /\ ~AnyOutcome("false")
  /\ Outcome(FirstErrorPosition).kind = "error"
  /\ Outcome(FirstErrorPosition).status = 500
  /\ res.status = 400

\* the positions of the try order whose attempt got a response other than 200
Rejected == {i \in Positions : Outcome(i).kind = "response" /\ Outcome(i).status # 200}

\* the error text the libp2p gateway answers for the rejection of position i
SettleReasonOf(i) ==
  IF Outcome(i).body.error # Absent THEN Outcome(i).body.error ELSE "Settle error"

\* C11 (as claimed): a peer's non-200 answer to a settle is handled like a
\* transport failure: the settle goes on, and a failure is answered only as
\* the exhaustion answer (503) after every active peer was sent the settle.
C11_ErrorLikeFailure ==
  (SettleAnswered /\ Rejected # {} /\ res.status # 200) =>
    (res.status = 503 /\ SettleTargets = Range(peers))

\* C11 (amended): only the HTTP gateway moves on after a peer's non-200
\* answer: the next peer of the try order is sent the settle, and a failure is
\* answered (503) only when every peer of the try order has been tried.  The
\* libp2p gateway answers the first non-200 answer at once with status 400 and
\* the peer's error text ("Settle error" when it has none).
C11_OnlyHttpMovesOn ==
  (route = "/rpc/settle") =>
    \A i \in Rejected :
      IF binding = "http"
      THEN /\ (i < Len(candidatePeers)) => (attempts[i + 1].st # "waiting")
           /\ (pc = "done" /\ res.status # 200) =>
                (res.status = 503 /\ AllAttemptsSettled)
      ELSE /\ pc = "done"
           /\ res.status = 400
           /\ res.body.error = SettleReasonOf(i)

\* C11 witness: the libp2p gateway with two active peers answers 400 "bad"
\* after the one peer it chose rejected the settle.
C11_Witness ==
  /\ SettleAnswered /\ binding = "libp2p"
  /\ Len(peers) = 2
  /\ Rejected # {}
  /\ Len(sent) = 1
  /\ res.status = 400 /\ res.body.error = "bad"

\* C12 (as claimed): a settle that found an active peer and got no status 200
\* from any attempt is answered 503 {success:false, error:"Settle
\* unavailable", txHash:null, networkId:null}.
C12_ExhaustedUnavailable ==
  (SettleAnswered /\ Accepted = {}) =>
    (res = [status |-> 503,
            body |-> [success |-> FALSE, error |-> "Settle unavailable",
                      txHash |-> "null", networkId |-> "null"]])

\* C12 (amended): such a settle is answered 503 {success:false, error:"Settle
\* unavailable", txHash:null, networkId:null} by the HTTP gateway always, and
\* by the libp2p gateway when every request to the chosen peer threw; when the
\* chosen peer answered with another status the libp2p gateway answers 400.
C12_UnavailableWhenAllThrew ==
  (SettleAnswered /\ Accepted = {}) =>
    IF binding = "http" \/ Rejected = {}
    THEN res = [status |-> 503,
                body |-> [success |-> FALSE, error |-> "Settle unavailable",
                          txHash |-> "null", networkId |-> "null"]]
    ELSE res.status = 400 /\ res.body.success = FALSE

\* C12 witness: the libp2p gateway answers 503 after the request by peer id
\* and the one by the peer's multiaddr both threw.
C12_Witness ==
  /\ SettleAnswered /\ binding = "libp2p"
  /\ Accepted = {} /\ Rejected = {}
  /\ Len(sent) = 2 /\ sent[2].via = "multiaddr"
  /\ res.status = 503 /\ res.body.error = "Settle unavailable"

NoPeerAnswered(path) ==
  /\ pc = "done" /\ route = path
  /\ Len(peers) = 0

\* C14 (as claimed): with no peers, /rpc/settle answers the body of the
\* exhaustion response, {success:false, error:"Settle unavailable",
\* txHash:null, networkId:null}, and /rpc/verify answers a 503.
C14_NoPeerSettleShape ==
  /\ NoPeerAnswered("/rpc/settle") =>
       (res.body = [success |-> FALSE, error |-> "Settle unavailable",
                    txHash |-> "null", networkId |-> "null"])
  /\ NoPeerAnswered("/rpc/verify") => (res.status = 503)

\* C14 (amended): with no peers both routes answer 503; the HTTP gateway's
\* settle body is {success:false, error:"No peers configured", txHash:null,
\* networkId:null} and its verify body {error:"No peers configured"}; the
\* libp2p gateway answers {error:"No peers available"} on both routes, which
\* is not of the settle-result shape.
C14_NoPeerAnswers ==
  /\ NoPeerAnswered("/rpc/settle") =>
       /\ res.status = 503
       /\ res.body = IF binding = "http"
                     THEN [success |-> FALSE, error |-> "No peers configured",
                           txHash |-> "null", networkId |-> "null"]
                     ELSE [error |-> "No peers available"]
  /\ NoPeerAnswered("/rpc/verify") =>
       /\ res.status = 503
       /\ res.body = IF binding = "http"
                     THEN [error |-> "No peers configured"]
                     ELSE [error |-> "No peers available"]

\* C14 witness: the HTTP gateway without peers has answered a settle.
C14_Witness ==
  /\ NoPeerAnswered("/rpc/settle") /\ binding = "http"
  /\ res.body.error = "No peers configured"
  /\ res.body.success = FALSE

\* a request for the given route arrives at the libp2p gateway in this step:
\* the only steps taken between two requests that leave the clock and the
\* count of announcements alone
Arrives(path) ==
  /\ binding = "libp2p" /\ Mounted
  /\ pc \in {"idle", "done"}
  /\ now' = now /\ announced' = announced
  /\ route' = path

\* the kinds the registry holds for a peer id
KindsOf(peerId) == MapGet(peerIdToRecord, peerId).kinds

\* the active peers (as the arriving request found them) that advertise the
\* network the arriving request asks for
Advertisers ==
  {p \in Range(peers') : RequestedNetwork(body') \in KindsOf(p)}

\* C15: the candidates of a verify that found an active peer are never empty,
\* are all active peers, and are all the active peers when no active peer
\* advertises the requested network.
C15_CandidatesNeverEmpty ==
  [][(Arrives("/rpc/verify") /\ pc' = "verify") =>
       /\ Len(candidatePeers') > 0
       /\ Range(candidatePeers') \subseteq Range(peers')
       /\ (Advertisers = {}) => (candidatePeers' = peers')]_vars

\* C15 witness: a verify for base-sepolia whose two active peers both
\* announced solana-devnet only went to both of them.
C15_Witness ==
  /\ binding = "libp2p" /\ pc = "verify"
  /\ RequestedNetwork(body) = "base-sepolia"
  /\ Len(peers) = 2
  /\ \A p \in Range(peers) : KindsOf(p) = {"solana-devnet"}
  /\ candidatePeers = peers

\* C16 (as claimed): an active peer whose kinds are empty is a candidate of
\* every verify, whatever network is requested and whatever the other active
\* peers advertise.
C16_UnknownKindsKept ==
  [][(Arrives("/rpc/verify") /\ pc' = "verify") =>
       \A p \in Range(peers') :
         (KindsOf(p) = {}) => (p \in Range(candidatePeers'))]_vars

\* the registry records that are fresh at the current time
FreshIds ==
  {rec.peerId : rec \in {r \in Range(peerIdToRecord) :
                          (now - r.lastSeenMs <= PeerTtlMs) \/ (r.lastSeenMs = 0)}}

\* C17: the active set a request finds on arrival is exactly the set of
\* registry records with now - lastSeenMs <= peerTtlMs or lastSeenMs = 0, and
\* every request sent to a peer for it goes to a peer of that set.
C17_ActiveSetExact ==
  [][/\ (Arrives("/rpc/verify") \/ Arrives("/rpc/settle")) =>
          (Range(peers') = FreshIds)
     /\ (binding = "libp2p") =>
          (\A k \in 1..Len(sent') : sent'[k].to \in Range(peers'))]_vars

\* C17 witness: of two announced peers the first one has expired and the
\* request went to the second one only.
C17_Witness ==
  /\ binding = "libp2p" /\ pc \in {"verify", "settle"}
  /\ Len(peerIdToRecord) = 2
  /\ peerIdToRecord[1].lastSeenMs > 0
  /\ now - peerIdToRecord[1].lastSeenMs > PeerTtlMs
  /\ now - peerIdToRecord[2].lastSeenMs <= PeerTtlMs
  /\ peers = <<peerIdToRecord[2].peerId>>
  /\ Len(sent) > 0

\* C18 (as claimed): every peer id of staticPeers is active at every time,
\* whatever was announced.
C18_StaticNeverExpires ==
  (binding = "libp2p" /\ Mounted) =>
    (\A i \in 1..Len(options.staticPeers) : options.staticPeers[i] \in FreshIds)

\* the registry records of a peer id
RecordsOf(peerId) == {i \in 1..Len(peerIdToRecord) : peerIdToRecord[i].peerId = peerId}

\* C19: where the handler is subscribed, the registry holds at most one
\* record per peer id; the record of a peer that announced carries exactly the
\* kinds and the time of its last announcement; a peer that never announced
\* has a record only if it is static, with empty kinds and lastSeenMs 0.
C19_LastWriterWins ==
  (binding = "libp2p" /\ Mounted) =>
    \A p \in Peers :
      /\ Cardinality(RecordsOf(p)) <= 1
      /\ (heard[p] # NotHeard) =>
           \E i \in RecordsOf(p) :
             /\ peerIdToRecord[i].kinds = heard[p].kinds
             /\ peerIdToRecord[i].lastSeenMs = heard[p].at
      /\ (heard[p] = NotHeard) =>
           /\ (RecordsOf(p) # {}) <=> (p \in Range(options.staticPeers))
           /\ \A i \in RecordsOf(p) :
                peerIdToRecord[i].kinds = {} /\ peerIdToRecord[i].lastSeenMs = 0

\* C19 witness: peer 1 announced twice, the second time later and with
\* solana-devnet, and its one record holds just that.
C19_Witness ==
  /\ binding = "libp2p" /\ Mounted
  /\ announced = 2
  /\ heard[2] = NotHeard
  /\ heard[1] = [kinds |-> {"solana-devnet"}, at |-> 2]
  /\ Cardinality(RecordsOf(1)) = 1
  /\ KindsOf(1) = {"solana-devnet"}

\* C20 (as claimed): on a facilitator with p2p, a peer that is not static and
\* whose valid announcement was received has a registry record with the time
\* of that announcement and is active while that announcement is no older
\* than peerTtlMs.
C20_AnnouncedPeerActive ==
  (binding = "libp2p" /\ hasP2P) =>
    \A p \in Peers :
      (heard[p] # NotHeard /\ p \notin Range(options.staticPeers)) =>
        /\ \E i \in RecordsOf(p) : peerIdToRecord[i].lastSeenMs = heard[p].at
        /\ (now - heard[p].at <= PeerTtlMs) => (p \in FreshIds)

\* a message the listener must not pass on: another topic, no data, a payload
\* that does not parse, no sender, or no kinds
Malformed(msg) ==
  \/ msg.topic # AnnouncementsTopic
  \/ ~msg.data.present
  \/ ~msg.data.parses
  \/ msg.from = NoSender
  \/ msg.data.kinds = {}

\* C21: a step in which the listener is handed a malformed or empty
\* announcement calls no handler and leaves the peer registry unchanged (the
\* message is dropped), and a well-formed announcement handed to the listener
\* after a drop is still passed on to the handlers.
C21_MalformedDropped ==
  [][(announced' = announced + 1) =>
       /\ Malformed(lastMsg') =>
            (peerIdToRecord' = peerIdToRecord /\ heard' = heard /\ dropped' = dropped + 1)
       /\ (~Malformed(lastMsg') /\ dropped > 0) =>
            /\ heard'[lastMsg'.from] = [kinds |-> lastMsg'.data.kinds, at |-> now]
            /\ hasOnAnnouncement =>
                 \E rec \in Range(peerIdToRecord') :
                    /\ rec.peerId = lastMsg'.from
                    /\ rec.kinds = lastMsg'.data.kinds
                    /\ rec.lastSeenMs = now]_vars

\* C21 witness: a message was dropped, and the announcement that followed it
\* reached the gateway's handler.
C21_Witness ==
  /\ dropped = 1
  /\ announced = 2
  /\ ~Malformed(lastMsg)
  /\ hasOnAnnouncement
  /\ heard[lastMsg.from] = [kinds |-> lastMsg.data.kinds, at |-> now]
  /\ \E rec \in Range(peerIdToRecord) :
        rec.peerId = lastMsg.from /\ rec.kinds = lastMsg.data.kinds

\* C22: every step that handles a verify or settle request (arrival, a peer's
\* response, a failure or timeout, the reduction) leaves the registry as it
\* was, and the registry changes only in a step in which the listener is
\* handed an announcement it accepts.
C22_RegistryFrame ==
  [][/\ (request' # request) => (peerIdToRecord' = peerIdToRecord)
     /\ (peerIdToRecord' # peerIdToRecord) =>
          (announced' = announced + 1 /\ ~Malformed(lastMsg'))]_vars

\* C22 witness: a verify that met a failed peer and a peer answering true
\* was answered, and the registry still holds both peers' announcements.
C22_Witness ==
  /\ binding = "libp2p" /\ Mounted
  /\ pc = "done" /\ route = "/rpc/verify"
  /\ AnyOutcome("fail") /\ AnyOutcome("true")
  /\ Len(peerIdToRecord) = 2
  /\ \A p \in Peers : heard[p] # NotHeard /\ KindsOf(p) = heard[p].kinds

C24_EveryRequestAnswered ==
  (pc \in {"verify", "settle"}) ~> (pc = "done")

\* C25: the quorum in force is the configured one when that is at least 1
\* and 1 otherwise; on a gateway configured with quorum 0 or a negative
\* quorum, an answered verify is valid exactly when at least one candidate
\* returned true (so never when none did), and the response is the one a
\* quorum of 1 gives for the same outcomes.
C25_QuorumClamped ==
  /\ verifyQuorum = (IF options.verifyQuorum >= 1 THEN options.verifyQuorum ELSE 1)
  /\ (VerifyAnswered /\ options.verifyQuorum <= 0) =>
       /\ AnsweredValid <=> (NumTrue >= 1)
       /\ res = (IF binding = "libp2p"
                 THEN GwReduce(AllSettled(attempts, arrival), 1)
                 ELSE HttpReduce(AllSettled(attempts, arrival), 1))

\* C25 witness: configured with a quorum below 1, a gateway answered
\* valid=false to a verify whose candidates returned false and no true.
C25_Witness ==
  /\ VerifyAnswered
  /\ options.verifyQuorum < 0
  /\ NumTrue = 0
  /\ AnyOutcome("false")
  /\ res.status = 200
  /\ ~AnsweredValid

\* what each gateway answers to a verify whose candidates, in this order, had
\* the outcomes of the request at hand, under the quorum in force
GwVerifyAnswer == GwReduce(AllSettled(attempts, arrival), verifyQuorum)
HttpVerifyAnswer == HttpReduce(AllSettled(attempts, arrival), verifyQuorum)

\* C26 (as claimed): for the same candidates, quorum and per-peer outcomes
\* the libp2p gateway and the HTTP gateway in fan-out mode answer a verify
\* with the same status and the same body, and a settle accepted by the peer
\* contacted with the same status and the same body.
C26_Substitutable ==
  /\ VerifyAnswered => (GwVerifyAnswer = HttpVerifyAnswer)
  /\ (pc = "done" /\ route = "/rpc/settle") =>
       \A i \in Positions :
          (Outcome(i).kind = "response" /\ Outcome(i).status = 200) =>
             SettleSuccess([status |-> 200, body |-> Outcome(i).body])
               = [status |-> 200, body |-> Outcome(i).body]

\* C27 (as claimed): a canonical body is forwarded as it is, a legacy body
\* as {paymentPayload: {header: paymentHeader}, paymentRequirements},
\* normalizing twice is normalizing once, and every request sent to a peer
\* for one inbound request (by identity, by multiaddr or by URL) carries the
\* normalized body of that inbound request.
C27_NormalizedBodySent ==
  /\ ForwardBody(CanonicalBody) = CanonicalBody
  /\ ForwardBody(LegacyBody) =
       [paymentPayload |-> [tag |-> "object", header |-> LegacyBody.paymentHeader],
        paymentHeader |-> "",
        paymentRequirements |-> LegacyBody.paymentRequirements]
  /\ \A b \in InboundBodies : ForwardBody(ForwardBody(b)) = ForwardBody(b)
  /\ \A k \in 1..Len(sent) : sent[k].body = ForwardBody(body)

AddrNumbers(i) == {sent[k].n : k \in AddrsTried(i)}

\* C29: in the libp2p gateway a request goes to the n-th known multiaddr of
\* a peer only after the request by peer id (n = 1) or to the (n-1)-th
\* multiaddr (n > 1) of that peer, which failed: the attempt is then still
\* without outcome; no multiaddr is sent the request twice; an attempt
\* waiting on its n-th multiaddr has tried exactly the first n; an attempt
\* that has its outcome is sent nothing more; and an attempt is a failure only
\* when every known multiaddr was tried.
C29_FallbackInOrder ==
  [][(binding = "libp2p") =>
       /\ \A k \in 1..Len(sent') :
            (sent'[k].via = "multiaddr") =>
              /\ sent'[k].n \in 1..Len(peerIdToMultiaddrs(sent'[k].to))
              /\ \E j \in 1..(k - 1) :
                   /\ sent'[j].to = sent'[k].to
                   /\ IF sent'[k].n = 1 THEN sent'[j].via = "peerId"
                      ELSE sent'[j].via = "multiaddr" /\ sent'[j].n = sent'[k].n - 1
              /\ \A j \in 1..Len(sent') :
                   (sent'[j].via = "multiaddr" /\ sent'[j].to = sent'[k].to
                      /\ sent'[j].n = sent'[k].n) => (j = k)
       /\ \A i \in 1..Len(attempts') :
            /\ (attempts'[i].st = "inflight") =>
                 (AddrNumbers(i)' = 1..attempts'[i].stage)
            /\ (attempts'[i].out.kind = "fail") =>
                 (AddrNumbers(i)' = 1..Len(peerIdToMultiaddrs(candidatePeers'[i])))
       /\ (pc \in {"verify", "settle"} /\ Len(sent') > Len(sent)) =>
            LET new == sent'[Len(sent')]
            IN  \E i \in 1..Len(attempts) :
                  /\ candidatePeers[i] = new.to
                  /\ new.via = "multiaddr"
                  /\ attempts[i] = InFlight(new.n - 1)
                  /\ attempts'[i] = InFlight(new.n)]_vars

\* C29 witness: the request by peer id and the first multiaddr of peer 1
\* failed, the second multiaddr answered, and the attempt has that outcome.
C29_Witness ==
  /\ binding = "libp2p" /\ route = "/rpc/verify"
  /\ Len(peerIdToMultiaddrs(1)) = 2
  /\ \E i \in Positions :
        /\ candidatePeers[i] = 1
        /\ AddrNumbers(i) = {1, 2}
        /\ Outcome(i).kind = "true"

\* C30: a settle that reaches the libp2p gateway (of a facilitator that has
\* p2p) while some peer is active is sent at once, by peer id, to one of the peers active at that moment;
\* for the rest of the request that is the only request by peer id, and every
\* request sent (the multiaddr fallback included) goes to that same peer.
C30_SettleToOneActivePeer ==
  [][(binding = "libp2p" /\ route' = "/rpc/settle") =>
       /\ (Arrives("/rpc/settle") /\ hasP2P /\ FreshIds # {}) =>
            /\ Len(sent') = 1
            /\ sent'[1].via = "peerId"
            /\ sent'[1].to \in FreshIds
       /\ Cardinality({k \in 1..Len(sent') : sent'[k].via = "peerId"}) <= 1
       /\ \A k \in 1..Len(sent') : sent'[k].to = sent'[1].to]_vars

\* C30 witness: with two active peers the settle went to the first of them,
\* failed by peer id and on its multiaddr, and was answered 503 without the
\* second peer being contacted.
C30_Witness ==
  /\ binding = "libp2p" /\ SettleAnswered
  /\ Len(peers) = 2
  /\ Len(sent) = 2
  /\ SettleTargets = {peers[1]}
  /\ res.status = 503

\* how many times x occurs in a sequence
Count(arr, x) == Cardinality({i \in 1..Len(arr) : arr[i] = x})

\* the registrations of a handler function whose token was never called
LiveSubscriptions(handler) ==
  {k \in 1..Len(subscriptions) :
     subscriptions[k].fn = handler /\ subscriptions[k].calls = 0}

\* C31 (as claimed): only the first call of a token removes something: a
\* handler function is in the handler list once per registration whose token
\* was never called, however often the other tokens were called and whether
\* or not the same function was registered more than once.
C31_UnsubscribeIdempotent ==
  \A handler \in Handlers :
    Count(announcementHandlers, handler) = Cardinality(LiveSubscriptions(handler))

\* C32 (as claimed): in every dispatch, each handler that was registered when
\* the dispatch started and did not unsubscribe itself during it was invoked
\* exactly as often as it was registered.
C32_OthersStillInvoked ==
  \A handler \in Handlers \ lastDispatch.selfUnsub :
    Count(lastDispatch.invoked, handler) = Count(lastDispatch.started, handler)

\* C35 (as claimed): whatever the interleaving of start() and stop() calls,
\* at most one libp2p node exists (created and not stopped) at a time.
C35_AtMostOneNode == Cardinality(running) <= 1

\* C36 (as claimed): at most one periodic announce timer is running, and
\* none while the manager holds no node.
C36_AtMostOneTimer ==
  /\ timers <= 1
  /\ (node = 0 /\ starting = 0 /\ stopping = 0) => (timers = 0)

\* the attempt that settled last
LastSettled == attempts[arrival[Len(arrival)]].out

\* C33: the attempt that a peer's response has just settled is True only if
\* the response has status 200 and the body true; it is False for every
\* other status-200 body (false, an object, a string, no body); and it is an
\* Error carrying the response's status and body for every other status.
C33_TrueOnlyForBooleanTrue ==
  (pc = "verify" /\ lastResponse # NoResponse) =>
    /\ Len(arrival) > 0
    /\ (LastSettled.kind = "true") <=>
         (lastResponse.status = 200 /\ lastResponse.body.json = "true")
    /\ (LastSettled.kind = "false") <=>
         (lastResponse.status = 200 /\ lastResponse.body.json # "true")
    /\ (LastSettled.kind = "error") <=> (lastResponse.status # 200)
    /\ (lastResponse.status # 200) =>
         /\ LastSettled.status = lastResponse.status
         /\ LastSettled.body = lastResponse.body

\* C33 witness: a peer answered 200 with an object and its attempt is False,
\* while another peer's attempt is True.
C33_Witness ==
  /\ pc = "verify"
  /\ lastResponse.status = 200
  /\ lastResponse.body.json = "object"
  /\ LastSettled.kind = "false"
  /\ AnyOutcome("true")

\* C34 (as claimed): in a verify of the libp2p gateway, a request sent to a
\* multiaddr of a peer carries the same body as the request sent to that
\* peer by its id, whether the inbound body was canonical or legacy.
C34_FallbackSameBody ==
  (binding = "libp2p" /\ route = "/rpc/verify") =>
    \A j, k \in 1..Len(sent) :
      (sent[j].via = "peerId" /\ sent[k].via = "multiaddr" /\ sent[j].to = sent[k].to)
        => (sent[k].body = sent[j].body)

\* C37: from its arrival to its answer a verify keeps the candidates and the
\* active set it found on arrival, whatever is announced and whoever expires
\* meanwhile; what was sent is never taken back; each candidate is sent the
\* verify exactly once by its id (or url) and nobody else is sent anything;
\* and the answer is the reduction of the candidates' outcomes alone.
C37_CandidatesFixedOnArrival ==
  [][/\ (pc = "verify") =>
          /\ candidatePeers' = candidatePeers
          /\ peers' = peers
          /\ Len(sent') >= Len(sent)
          /\ SubSeq(sent', 1, Len(sent)) = sent
     /\ (route' = "/rpc/verify") =>
          /\ \A i \in 1..Len(candidatePeers') :
               Cardinality({k \in 1..Len(sent') :
                              /\ sent'[k].via # "multiaddr"
                              /\ sent'[k].to = candidatePeers'[i]}) = 1
          /\ \A k \in 1..Len(sent') : sent'[k].to \in Range(candidatePeers')
     /\ (pc = "verify" /\ pc' = "done") =>
          res' = (IF binding = "libp2p"
                  THEN GwReduce(AllSettled(attempts, arrival), verifyQuorum)
                  ELSE HttpReduce(AllSettled(attempts, arrival), verifyQuorum))]_vars

\* C37 witness: while the verify sent to peer 1 is in flight, peer 1 has
\* expired and peer 2, announced meanwhile, is the only active peer; the
\* request still has peer 1 as its one candidate.
C37_Witness ==
  /\ binding = "libp2p" /\ pc = "verify"
  /\ candidatePeers = <<1>>
  /\ Len(sent) = 1 /\ sent[1].to = 1
  /\ FreshIds = {2}

\* the peer ids that have a record in the registry
KnownIds == {peerIdToRecord[i].peerId : i \in 1..Len(peerIdToRecord)}

\* the records whose last announcement is older than peerTtlMs
ExpiredIds ==
  {peerIdToRecord[i].peerId : i \in
     {j \in 1..Len(peerIdToRecord) :
        /\ peerIdToRecord[j].lastSeenMs # 0
        /\ now - peerIdToRecord[j].lastSeenMs > PeerTtlMs}}

\* C38: no step removes a peer id from the registry (announcements, requests
\* and the passing of time only add ids or leave them); an expired peer keeps
\* its record and is left out of the active set; and where the gateway's
\* handler is subscribed, a step in which an announcement of a peer is
\* accepted makes that peer active at once, expired or not before.
C38_RegistryOnlyGrows ==
  [][/\ KnownIds \subseteq KnownIds'
     /\ Len(peerIdToRecord') >= Len(peerIdToRecord)
     /\ \A p \in ExpiredIds' :
          /\ p \in KnownIds'
          /\ p \notin Range(getActivePeers(peerIdToRecord', now'))
     /\ (announced' = announced + 1 /\ ~Malformed(lastMsg') /\ hasOnAnnouncement) =>
          /\ lastMsg'.from \in Range(getActivePeers(peerIdToRecord', now'))
          /\ lastMsg'.from \notin ExpiredIds']_vars

\* C38 witness: both peers are known, peer 1 has expired and is not active
\* while its record is still in the registry, and peer 2 is active.
C38_Witness ==
  /\ binding = "libp2p" /\ hasOnAnnouncement
  /\ KnownIds = {1, 2}
  /\ ExpiredIds = {1}
  /\ Range(getActivePeers(peerIdToRecord, now)) = {2}

\* a verify request of the HTTP gateway in single mode that has peers to try
SingleRequest ==
  /\ binding = "http" /\ options.verifyMode = "single"
  /\ route = "/rpc/verify"
  /\ pc \in {"single", "done"}
  /\ Len(candidatePeers) > 0

\* the positions of the try order whose peer returned a status-200 response,
\* and those whose peer returned another status
Got200 == {i \in Positions : Outcome(i).kind \in {"true", "false"}}
GotNon200 == {i \in Positions : Outcome(i).kind = "error"}

C39_WitnessStops ==
  /\ SingleRequest /\ pc = "done"
  /\ Len(candidatePeers) = 2 /\ Len(sent) = 1
  /\ lastResponse.status = 200 /\ lastResponse.body.json = "object"
  /\ res = [status |-> 200, body |-> [json |-> "false"]]

====
